---- MODULE Spec2Model ----
(***************************************************************************)
(* Verification model of three utilities of Mantra-Baileys:                *)
(*   RateLimitedQueue  (src/src/Utils/rate-limiter.ts)                     *)
(*   WebhookBridge     (src/unnamed/part_001)                              *)
(*   SessionManager    (src/src/Utils/session-manager.ts)                  *)
(* Each utility has its own specification (SpecQueue, SpecWebhook,         *)
(* SpecSession) over its own variables; the variables of the other two     *)
(* stay at their initial values.                                           *)
(*                                                                         *)
(* Time is a discrete clock `now` (Date.now()).  One JavaScript macrotask  *)
(* (everything a callback does up to its next await) is one action.  A     *)
(* timer fires at the tick it is due: the clock advances only when no      *)
(* timer is due, and timers due at the same tick fire in any order.        *)
(***************************************************************************)
EXTENDS Integers, Sequences, FiniteSets, TLC

(***************************************************************************)
(* Bounds of the model and configured values, in clock ticks.              *)
(***************************************************************************)
MaxTime == 7
MaxTasks == 3
MaxLoops == 2
MinuteMs == 3
MinutesPerDay == 2
MessagesPerMinute == 1
MessagesPerDay == 2
MinDelayMs == 1
MaxDelayMs == 1
JitterMs == 2
DelayFloor == 1
PerRecipientDelayMs == 2

DayMs == MinutesPerDay * MinuteMs

Jids == {"a", "b"}
Absent == -1
NoTask == 0

Max(a, b) == IF a >= b THEN a ELSE b

VARIABLES
    now,             \* Date.now()
    queue,           \* RateLimitedQueue.queue: sequence of task ids
    processing,      \* RateLimitedQueue.processing
    sentThisMinute,  \* RateLimitedQueue.sentThisMinute
    sentToday,       \* RateLimitedQueue.sentToday
    lastSentAt,      \* RateLimitedQueue.lastSentAt: jid -> time, Absent if no entry
    loops,           \* activations of _process: where each one is suspended
    minuteTimer,     \* the timer of _startMinuteReset and the handle minuteResetTimer
    dayTimer,        \* the timer of _startDayReset and the handle dayResetTimer
    tasks,           \* every task ever enqueued: jid, state of its promise and operation
    nEnqueued,       \* number of enqueue calls so far
    sinceReset,      \* history: operations invoked since the last minute reset
    clearedPending,  \* history: tasks not yet invoked at some clear() call
    anyFailed        \* history: some operation has thrown

queueVars == <<now, queue, processing, sentThisMinute, sentToday, lastSentAt, loops,
               minuteTimer, dayTimer, tasks, nEnqueued, sinceReset, clearedPending,
               anyFailed>>

VARIABLES
    configs,         \* WebhookBridge.configs: endpoint id -> config, NoConfig if no entry
    deliveries,      \* every _sendWithRetry chain started: its endpoint, event and progress
    dispatched       \* history: every _dispatch call, with the endpoints registered for its kind

webhookVars == <<configs, deliveries, dispatched>>

VARIABLES
    autoReconnect,      \* SessionManager.config.autoReconnect
    sessions,           \* SessionManager.sessions: id -> {info, sock}, NoSession if no entry
    infos,              \* the SessionInfo objects allocated so far
    socks,              \* the sockets made so far, each with the id and info of its handlers
    reconnectAttempts,  \* SessionManager.reconnectAttempts: id -> count, Absent if no entry
    timers,             \* pending reconnect timers: id -> attempt number -> how many
    booting,            \* activations of _boot awaiting useMultiFileAuthState, by caller
    guarded,            \* history: destroyed with a reconnect timer pending, not created since
    zombie,             \* history: a reconnect timer of a guarded id has called _boot
    lastClose,          \* history: the non-logout close the last step handled, if it handled one
    scheduledSince,     \* history: re-boots scheduled since the last open (or destroy)
    pendingSnaps,       \* history: snapshots seen while disconnected, re-boot scheduled
    lastCall,           \* the createSession / destroySession call of the last step, its error
    waiters,            \* the waitForConnected calls: id, promise, timer and listeners
    scenario,           \* history: the step of the end-to-end scenario of s1 reached
    held                \* what a caller of getInfo / listSessions last got, and its fields then

readerVars == <<held>>

sessionVars == <<autoReconnect, sessions, infos, socks, reconnectAttempts, timers, booting,
                 guarded, zombie, lastClose, scheduledSince, pendingSnaps, lastCall,
                 waiters, scenario, readerVars>>

VARIABLES
    schedStore,      \* MessageScheduler.store: id -> the message, NoMessage if no entry
    schedJobs,       \* MessageScheduler.jobs: id -> the timer handle, NoTimer if no entry
    schedTimers,     \* every timer the scheduler has set: its id, its message and its progress
    schedCancelled   \* history: cancel(id) returned true and id was not scheduled since

schedulerVars == <<schedStore, schedJobs, schedTimers, schedCancelled>>

vars == <<queueVars, webhookVars, sessionVars, schedulerVars>>

(***************************************************************************)
(* RateLimitedQueue                                                        *)
(***************************************************************************)
TaskIds == 1..MaxTasks
LoopIds == 1..MaxLoops

IdleLoop == [pc |-> "idle", task |-> NoTask, wake |-> 0]
NoTaskRec == [jid |-> "a", st |-> "none", invokedAt |-> Absent, raised |-> FALSE]

\* _nextMinuteMs, and msToNextMinute of _startMinuteReset
NextMinuteMs(t) == MinuteMs - (t % MinuteMs)

\* _waitUntilMidnight, and the delay of _startDayReset: time to the next midnight
MsToMidnight(t) == DayMs - (t % DayMs)

\* _randomDelay: base in [minDelayMs, maxDelayMs] plus symmetric jitter, clamped
RandomDelay ==
    { Max(DelayFloor, b + j) : b \in MinDelayMs..MaxDelayMs,
                               j \in (0 - (JitterMs \div 2))..(JitterMs \div 2) }

\* `if (lastSent)`: undefined and 0 are falsy
Truthy(x) == x # Absent /\ x # 0

\* the wait before a task of a recipient last served at lastSent (0: none)
SpacingWaitNone(lastSent, t) == 0
SpacingWait(lastSent, t) ==
    IF Truthy(lastSent) /\ t - lastSent < PerRecipientDelayMs
    THEN PerRecipientDelayMs - (t - lastSent)
    ELSE 0

\* the budget checks at the head of the drain loop
MinuteBudgetExhaustedOffByOne(stm) == stm > MessagesPerMinute
MinuteBudgetExhausted(stm) == stm >= MessagesPerMinute
DayBudgetExhaustedOffByOne(std) == std > MessagesPerDay
DayBudgetExhausted(std) == std >= MessagesPerDay

\* `this.queue.shift()`: the head of the queue and what is left of it
TakeLast(q) == [task |-> q[Len(q)], rest |-> SubSeq(q, 1, Len(q) - 1)]
Shift(q) == [task |-> Head(q), rest |-> Tail(q)]

\* enqueue starts _process unless one is active; _process returns if one is
ShouldStartProcessAlways == TRUE
ShouldStartProcess == ~processing

\* The drain loop from the `while` test to its next await, for the queue q,
\* counters stm and std, spacing table lsa, pacing delay d and task table tk.  The result is
\* the new queue, the suspended activation and the task taken (NoTask if none).
Drain(q, stm, std, lsa, d, tk) ==
    IF q = <<>>
    THEN [queue |-> q, loop |-> IdleLoop, taken |-> NoTask]
    ELSE IF DayBudgetExhausted(std)
    THEN [queue |-> q, taken |-> NoTask,
          loop |-> [pc |-> "waitMidnight", task |-> NoTask, wake |-> now + MsToMidnight(now)]]
    ELSE IF MinuteBudgetExhausted(stm)
    THEN [queue |-> q, taken |-> NoTask,
          loop |-> [pc |-> "waitMinute", task |-> NoTask, wake |-> now + NextMinuteMs(now)]]
    ELSE LET t == Shift(q).task
             w == SpacingWait(lsa[tk[t].jid], now)
         IN  IF w > 0
             THEN [queue |-> Shift(q).rest, taken |-> t,
                   loop |-> [pc |-> "spacing", task |-> t, wake |-> now + w]]
             ELSE [queue |-> Shift(q).rest, taken |-> t,
                   loop |-> [pc |-> "pacing", task |-> t, wake |-> now + d]]

\* the activation l resumes the drain loop; tk is the task table to update
Resume(l, q, stm, std, lsa, d, tk) ==
    LET r == Drain(q, stm, std, lsa, d, tk)
    IN  /\ queue' = r.queue
        /\ loops' = [loops EXCEPT ![l] = r.loop]
        /\ processing' = (r.loop.pc # "idle")
        /\ tasks' = IF r.taken = NoTask THEN tk
                    ELSE [tk EXCEPT ![r.taken].st = "held"]

QueueInit ==
    /\ now = 1
    /\ queue = <<>>
    /\ processing = FALSE
    /\ sentThisMinute = 0
    /\ sentToday = 0
    /\ lastSentAt = [j \in Jids |-> Absent]
    /\ loops = [l \in LoopIds |-> IdleLoop]
    /\ minuteTimer = [kind |-> "timeout", due |-> 1 + NextMinuteMs(1), handle |-> FALSE]
    /\ dayTimer = [kind |-> "timeout", due |-> 1 + MsToMidnight(1), handle |-> FALSE]
    /\ tasks = [t \in TaskIds |-> NoTaskRec]
    /\ nEnqueued = 0
    /\ sinceReset = 0
    /\ clearedPending = {}
    /\ anyFailed = FALSE

\* enqueue(jid, fn)
Enqueue(j, d) ==
    /\ nEnqueued < MaxTasks
    /\ LET t == nEnqueued + 1
           tk == [tasks EXCEPT ![t] = [jid |-> j, st |-> "queued", invokedAt |-> Absent,
                                       raised |-> FALSE]]
           q == Append(queue, t)
       IN  /\ nEnqueued' = t
           /\ IF ShouldStartProcess
              THEN \E l \in LoopIds :
                     /\ loops[l].pc = "idle"
                     /\ \A k \in LoopIds : k < l => loops[k].pc # "idle"
                     /\ Resume(l, q, sentThisMinute, sentToday, lastSentAt, d, tk)
              ELSE /\ queue' = q
                   /\ tasks' = tk
                   /\ UNCHANGED <<loops, processing>>
    /\ UNCHANGED <<now, sentThisMinute, sentToday, lastSentAt, minuteTimer, dayTimer,
                   sinceReset, clearedPending, anyFailed>>
    /\ UNCHANGED <<webhookVars, sessionVars, schedulerVars>>

\* enqueue(jid, fn) when config.onRateLimited throws: the task was pushed, the
\* executor ends at the callback, so the promise is rejected with the error of
\* the callback and _process is not called
EnqueueRaises(j) ==
    /\ nEnqueued < MaxTasks
    /\ nEnqueued' = nEnqueued + 1
    /\ tasks' = [tasks EXCEPT ![nEnqueued + 1] =
                     [jid |-> j, st |-> "queued", invokedAt |-> Absent, raised |-> TRUE]]
    /\ queue' = Append(queue, nEnqueued + 1)
    /\ UNCHANGED <<now, processing, sentThisMinute, sentToday, lastSentAt, loops,
                   minuteTimer, dayTimer, sinceReset, clearedPending, anyFailed>>
    /\ UNCHANGED <<webhookVars, sessionVars, schedulerVars>>

\* _sleep(required - elapsed) is over: the pacing delay starts
WakeSpacing(l, d) ==
    /\ loops[l].pc = "spacing"
    /\ now >= loops[l].wake
    /\ loops' = [loops EXCEPT ![l] = [pc |-> "pacing", task |-> loops[l].task,
                                      wake |-> now + d]]
    /\ UNCHANGED <<now, queue, processing, sentThisMinute, sentToday, lastSentAt,
                   minuteTimer, dayTimer, tasks, nEnqueued, sinceReset, clearedPending,
                   anyFailed>>
    /\ UNCHANGED <<webhookVars, sessionVars, schedulerVars>>

\* _sleep(delay) is over: task.fn() is invoked
WakePacing(l) ==
    /\ loops[l].pc = "pacing"
    /\ now >= loops[l].wake
    /\ loops' = [loops EXCEPT ![l].pc = "running"]
    /\ tasks' = [tasks EXCEPT ![loops[l].task].st = "running",
                              ![loops[l].task].invokedAt = now]
    /\ sinceReset' = sinceReset + 1
    /\ UNCHANGED <<now, queue, processing, sentThisMinute, sentToday, lastSentAt,
                   minuteTimer, dayTimer, nEnqueued, clearedPending, anyFailed>>
    /\ UNCHANGED <<webhookVars, sessionVars, schedulerVars>>

\* the catch block rejects the task and leaves the queue as it is
RequeueAfterFailure(q, t) == <<t>> \o q
QueueAfterFailure(q, t) == q

\* this.sentThisMinute++ / this.sentToday++ of the try block, after task.fn()
CountAfterAttempt(n, ok) == n + 1
CountAfter(n, ok) == IF ok THEN n + 1 ELSE n

\* task.fn() settles: the try or the catch block, then the loop goes on
Settle(l, ok, d) ==
    /\ loops[l].pc = "running"
    /\ LET t == loops[l].task
           lsa == IF ok THEN [lastSentAt EXCEPT ![tasks[t].jid] = now] ELSE lastSentAt
           stm == CountAfter(sentThisMinute, ok)
           std == CountAfter(sentToday, ok)
           tk == [tasks EXCEPT ![t].st = IF ok THEN "resolved" ELSE "failed"]
       IN  /\ lastSentAt' = lsa
           /\ sentThisMinute' = stm
           /\ sentToday' = std
           /\ Resume(l, IF ok THEN queue ELSE QueueAfterFailure(queue, t), stm, std, lsa, d, tk)
    /\ anyFailed' = (anyFailed \/ ~ok)
    /\ UNCHANGED <<now, minuteTimer, dayTimer, nEnqueued, sinceReset, clearedPending>>
    /\ UNCHANGED <<webhookVars, sessionVars, schedulerVars>>

\* _sleep(_nextMinuteMs()) is over: `continue`
WakeMinute(l, d) ==
    /\ loops[l].pc = "waitMinute"
    /\ now >= loops[l].wake
    /\ Resume(l, queue, sentThisMinute, sentToday, lastSentAt, d, tasks)
    /\ UNCHANGED <<now, sentThisMinute, sentToday, lastSentAt, minuteTimer, dayTimer,
                   nEnqueued, sinceReset, clearedPending, anyFailed>>
    /\ UNCHANGED <<webhookVars, sessionVars, schedulerVars>>

\* _waitUntilMidnight() is over: `continue`
WakeMidnight(l, d) ==
    /\ loops[l].pc = "waitMidnight"
    /\ now >= loops[l].wake
    /\ Resume(l, queue, sentThisMinute, sentToday, lastSentAt, d, tasks)
    /\ UNCHANGED <<now, sentThisMinute, sentToday, lastSentAt, minuteTimer, dayTimer,
                   nEnqueued, sinceReset, clearedPending, anyFailed>>
    /\ UNCHANGED <<webhookVars, sessionVars, schedulerVars>>

\* the callback of _startMinuteReset: the first one installs the interval
MinuteReset ==
    /\ minuteTimer.kind # "cleared"
    /\ now >= minuteTimer.due
    /\ sentThisMinute' = 0
    /\ minuteTimer' = [kind |-> "interval", due |-> now + MinuteMs, handle |-> TRUE]
    /\ sinceReset' = 0
    /\ UNCHANGED <<now, queue, processing, sentToday, lastSentAt, loops, dayTimer, tasks,
                   nEnqueued, clearedPending, anyFailed>>
    /\ UNCHANGED <<webhookVars, sessionVars, schedulerVars>>

\* the callback of _startDayReset
DayReset ==
    /\ dayTimer.kind # "cleared"
    /\ now >= dayTimer.due
    /\ sentToday' = 0
    /\ dayTimer' = [kind |-> "interval", due |-> now + DayMs, handle |-> TRUE]
    /\ UNCHANGED <<now, queue, processing, sentThisMinute, lastSentAt, loops, minuteTimer,
                   tasks, nEnqueued, sinceReset, clearedPending, anyFailed>>
    /\ UNCHANGED <<webhookVars, sessionVars, schedulerVars>>

InQueue(q) == { q[i] : i \in 1..Len(q) }
Held == { loops[l].task : l \in { k \in LoopIds : loops[k].pc \in {"spacing", "pacing"} } }

\* what clear() does to the task table: it rejects the tasks of this.queue
ClearedTasks == [t \in TaskIds |-> IF t \in InQueue(queue)
                                   THEN [tasks[t] EXCEPT !.st = "cancelled"]
                                   ELSE tasks[t]]

\* clear()
Clear ==
    /\ queue # <<>> \/ Held # {}
    /\ tasks' = ClearedTasks
    /\ queue' = <<>>
    /\ clearedPending' = clearedPending \cup InQueue(queue) \cup Held
    /\ UNCHANGED <<now, processing, sentThisMinute, sentToday, lastSentAt, loops,
                   minuteTimer, dayTimer, nEnqueued, sinceReset, anyFailed>>
    /\ UNCHANGED <<webhookVars, sessionVars, schedulerVars>>

\* clearInterval(handle) if the handle is set
Cleared(timer) == IF timer.handle THEN [timer EXCEPT !.kind = "cleared"] ELSE timer

\* destroy()
Destroy ==
    /\ minuteTimer.kind # "cleared" \/ dayTimer.kind # "cleared"
    /\ tasks' = ClearedTasks
    /\ queue' = <<>>
    /\ clearedPending' = clearedPending \cup InQueue(queue) \cup Held
    /\ minuteTimer' = Cleared(minuteTimer)
    /\ dayTimer' = Cleared(dayTimer)
    /\ UNCHANGED <<now, processing, sentThisMinute, sentToday, lastSentAt, loops,
                   nEnqueued, sinceReset, anyFailed>>
    /\ UNCHANGED <<webhookVars, sessionVars, schedulerVars>>

\* a timer is due
TimerDue ==
    \/ \E l \in LoopIds : /\ loops[l].pc \in {"spacing", "pacing", "waitMinute", "waitMidnight"}
                          /\ now >= loops[l].wake
    \/ minuteTimer.kind # "cleared" /\ now >= minuteTimer.due
    \/ dayTimer.kind # "cleared" /\ now >= dayTimer.due

\* the clock advances
Tick ==
    /\ now < MaxTime
    /\ ~TimerDue
    /\ now' = now + 1
    /\ UNCHANGED <<queue, processing, sentThisMinute, sentToday, lastSentAt, loops,
                   minuteTimer, dayTimer, tasks, nEnqueued, sinceReset, clearedPending,
                   anyFailed>>
    /\ UNCHANGED <<webhookVars, sessionVars, schedulerVars>>

QueueNext ==
    \/ \E j \in Jids, d \in RandomDelay : Enqueue(j, d)
    \/ \E l \in LoopIds, d \in RandomDelay : WakeSpacing(l, d)
    \/ \E l \in LoopIds : WakePacing(l)
    \/ \E l \in LoopIds, ok \in BOOLEAN, d \in RandomDelay : Settle(l, ok, d)
    \/ \E l \in LoopIds, d \in RandomDelay : WakeMinute(l, d)
    \/ \E l \in LoopIds, d \in RandomDelay : WakeMidnight(l, d)
    \/ MinuteReset
    \/ DayReset
    \/ Clear
    \/ Destroy
    \/ Tick

\* a queue in use, with an onRateLimited callback that may throw: everything
\* but destroy()
QueueLiveNext ==
    \/ \E j \in Jids, d \in RandomDelay : Enqueue(j, d)
    \/ \E j \in Jids : EnqueueRaises(j)
    \/ \E l \in LoopIds, d \in RandomDelay : WakeSpacing(l, d)
    \/ \E l \in LoopIds : WakePacing(l)
    \/ \E l \in LoopIds, ok \in BOOLEAN, d \in RandomDelay : Settle(l, ok, d)
    \/ \E l \in LoopIds, d \in RandomDelay : WakeMinute(l, d)
    \/ \E l \in LoopIds, d \in RandomDelay : WakeMidnight(l, d)
    \/ MinuteReset
    \/ DayReset
    \/ Clear
    \/ Tick

\* what happens by itself: timers fire when due, operations settle, time goes on
QueueProgress ==
    \/ \E l \in LoopIds, d \in RandomDelay : WakeSpacing(l, d)
    \/ \E l \in LoopIds : WakePacing(l)
    \/ \E l \in LoopIds, ok \in BOOLEAN, d \in RandomDelay : Settle(l, ok, d)
    \/ \E l \in LoopIds, d \in RandomDelay : WakeMinute(l, d)
    \/ \E l \in LoopIds, d \in RandomDelay : WakeMidnight(l, d)
    \/ MinuteReset
    \/ DayReset
    \/ Tick

(***************************************************************************)
(* Claims about RateLimitedQueue                                           *)
(***************************************************************************)
Invoked(t) == tasks[t].invokedAt # Absent

\* C2 (as stated): when every operation succeeds, any rolling window of one
\* minute holds at most messagesPerMinute invocations, also across a minute
\* boundary.
C2_RollingWindow ==
    ~anyFailed =>
        \A t \in TaskIds :
            Invoked(t) =>
                Cardinality({ u \in TaskIds :
                                /\ Invoked(u)
                                /\ tasks[t].invokedAt <= tasks[u].invokedAt
                                /\ tasks[u].invokedAt < tasks[t].invokedAt + MinuteMs })
                    <= MessagesPerMinute

\* C2 (amended): when every operation succeeds, at most messagesPerMinute
\* operations are invoked between two consecutive resets of the per-minute
\* counter (the resets fire at the wall-clock minute boundaries).
C2_BudgetBetweenResets == ~anyFailed => sinceReset <= MessagesPerMinute

\* C2 witness: the budget of the minute is used up and the loop waits with work left
C2_Witness ==
    /\ ~anyFailed
    /\ sinceReset = MessagesPerMinute
    /\ queue # <<>>
    /\ \E l \in LoopIds : loops[l].pc = "waitMinute"

\* C3: at most one activation of the drain loop is active and at most one
\* operation is executing, in every reachable state.
C3_SingleFlight ==
    /\ Cardinality({ l \in LoopIds : loops[l].pc # "idle" }) <= 1
    /\ Cardinality({ t \in TaskIds : tasks[t].st = "running" }) <= 1

\* C3 witness: an operation is executing while enqueue has added further tasks
C3_Witness ==
    /\ \E t \in TaskIds : tasks[t].st = "running"
    /\ Len(queue) >= 2
    /\ processing

\* C4 (as stated): every task whose operation had not been invoked when clear()
\* was called, the one held by the drain loop in its spacing or pacing delay
\* included, is rejected as cancelled (and so never invoked afterwards).
C4_ClearCancelsEveryPending ==
    \A t \in clearedPending : tasks[t].st = "cancelled"

\* C5 (as stated): two tasks of one recipient enqueued back-to-back are invoked
\* at least perRecipientDelayMs apart, whether the first succeeds or fails.
C5_SpacingAlways ==
    \A t \in TaskIds, u \in TaskIds :
        (/\ u = t + 1
         /\ tasks[t].jid = tasks[u].jid
         /\ Invoked(t) /\ Invoked(u))
        => tasks[u].invokedAt - tasks[t].invokedAt >= PerRecipientDelayMs

\* C5 (amended): a task is invoked at least perRecipientDelayMs after an earlier
\* task of the same recipient whose operation succeeded.
C5_SpacingAfterSuccess ==
    \A t \in TaskIds, u \in TaskIds :
        (/\ t < u
         /\ tasks[t].jid = tasks[u].jid
         /\ tasks[t].st = "resolved"
         /\ Invoked(u))
        => tasks[u].invokedAt - tasks[t].invokedAt >= PerRecipientDelayMs

\* C5 witness: the second of two back-to-back tasks of one recipient is invoked
\* after the first one succeeded
C5_Witness ==
    \E t \in TaskIds, u \in TaskIds :
        /\ u = t + 1
        /\ tasks[t].jid = tasks[u].jid
        /\ tasks[t].st = "resolved"
        /\ Invoked(u)

\* C19: operations are invoked in the order their tasks were enqueued: when
\* the operation of a task has been invoked, every task enqueued before it has
\* been invoked no later, or was rejected by clear() while still queued.
C19_StrictFifo ==
    \A t \in TaskIds, u \in TaskIds :
        (t < u /\ Invoked(u))
            => \/ tasks[t].st = "cancelled"
               \/ Invoked(t) /\ tasks[t].invokedAt <= tasks[u].invokedAt

\* C19 witness: the head task waits for the spacing of its recipient while a
\* task for another recipient is queued behind it
C19_Witness ==
    \E l \in LoopIds :
        /\ loops[l].pc = "spacing"
        /\ queue # <<>>
        /\ tasks[Head(queue)].jid # tasks[loops[l].task].jid

\* C20: sentThisMinute never exceeds messagesPerMinute and sentToday never
\* exceeds messagesPerDay; a drain loop suspended for a budget holds no task;
\* and a task is taken from the queue only in a step that leaves both counters
\* below their limits.
C20_BudgetsRespected ==
    /\ [](/\ sentThisMinute <= MessagesPerMinute
          /\ sentToday <= MessagesPerDay
          /\ \A l \in LoopIds :
                 loops[l].pc \in {"waitMinute", "waitMidnight"} => loops[l].task = NoTask)
    /\ [][\A t \in TaskIds :
             (tasks[t].st \in {"none", "queued"} /\ tasks'[t].st = "held")
                 => (sentThisMinute' < MessagesPerMinute /\ sentToday' < MessagesPerDay)]_vars

\* C20 witness: the daily budget is used up and the loop waits for midnight
\* with the head task still queued
C20_Witness ==
    /\ sentToday = MessagesPerDay
    /\ queue # <<>>
    /\ tasks[Head(queue)].st = "queued"
    /\ \E l \in LoopIds : loops[l].pc = "waitMidnight"

\* C21: the step in which an operation fails (it settles and no counter is
\* incremented) rejects its task and takes the drain loop on: with the queue empty the loop ends, otherwise it takes the
\* head task with a pacing (or spacing) delay still to run, or waits for a
\* budget; and a failed task stays failed and is not invoked again.
C21_FailureDoesNotStall ==
    /\ [][\A l \in LoopIds, t \in TaskIds :
             (/\ loops[l].pc = "running" /\ loops[l].task = t
              /\ tasks'[t] # tasks[t] /\ sentToday' = sentToday)
                 => /\ tasks[t].st = "running" /\ tasks'[t].st = "failed"
                    /\ queue = <<>> => loops'[l].pc = "idle"
                    /\ queue # <<>> =>
                          /\ loops'[l].pc \in {"spacing", "pacing", "waitMinute", "waitMidnight"}
                          /\ loops'[l].pc \in {"spacing", "pacing"} =>
                                 /\ loops'[l].task = Head(queue)
                                 /\ loops'[l].wake > now
                                 /\ ~Invoked(Head(queue))]_vars
    /\ [][\A t \in TaskIds : tasks[t].st = "failed" => tasks'[t] = tasks[t]]_vars

\* C21 witness: an operation failed and the operation of a later task was invoked
C21_Witness ==
    \E t \in TaskIds, u \in TaskIds :
        t < u /\ tasks[t].st = "failed" /\ Invoked(u) /\ tasks[u].invokedAt > tasks[t].invokedAt

\* a task whose promise is settled
Settled(t) == tasks[t].st \in {"resolved", "failed", "cancelled"}

\* a task enqueued and neither dispatched nor rejected yet
Waiting(t) == tasks[t].st \in {"queued", "held"}

\* the drain loop sleeps on a timer that is due after the last instant modelled
BeyondHorizon ==
    \E l \in LoopIds :
        /\ loops[l].pc \in {"spacing", "pacing", "waitMinute", "waitMidnight"}
        /\ loops[l].wake > MaxTime

\* C36: the promise of a task, once settled, is never settled again and an
\* operation once invoked is never invoked again; whenever the queue is not
\* empty, an activation of the drain loop is active; and every task enqueued
\* is eventually dispatched or rejected by clear(), unless the drain loop
\* sleeps on a timer due after the last instant modelled.
C36_EveryTaskServed ==
    /\ [](queue # <<>> => processing /\ \E l \in LoopIds : loops[l].pc # "idle")
    /\ [](\A t \in TaskIds : Waiting(t) => t \in InQueue(queue) \cup Held)
    /\ [][\A t \in TaskIds :
              /\ Settled(t) => tasks'[t] = tasks[t]
              /\ Invoked(t) => tasks'[t].invokedAt = tasks[t].invokedAt
              /\ tasks[t].st = "running" => tasks'[t].st \in {"running", "resolved", "failed"}]_vars
    /\ \A t \in TaskIds : Waiting(t) ~> (~Waiting(t) \/ BeyondHorizon)

\* C37: when an operation succeeds, sentThisMinute and sentToday each grow by 1
\* and the entry of the recipient in the spacing table becomes the time of
\* completion; when it fails, the counters and the table are unchanged; and no
\* other step raises a counter or changes the table.
C37_OnlySuccessConsumes ==
    /\ [][\A l \in LoopIds, d \in RandomDelay :
              /\ Settle(l, TRUE, d) =>
                     /\ sentThisMinute' = sentThisMinute + 1
                     /\ sentToday' = sentToday + 1
                     /\ lastSentAt' = [lastSentAt EXCEPT ![tasks[loops[l].task].jid] = now]
              /\ Settle(l, FALSE, d) =>
                     UNCHANGED <<sentThisMinute, sentToday, lastSentAt>>]_vars
    /\ [][(sentThisMinute' > sentThisMinute \/ sentToday' > sentToday
              \/ lastSentAt' # lastSentAt)
              => \E l \in LoopIds, d \in RandomDelay : Settle(l, TRUE, d)]_vars

\* C37 witness: one operation has failed and one has succeeded, and the day
\* counter stands at 1
C37_Witness ==
    /\ sentToday = 1
    /\ \E t \in TaskIds : tasks[t].st = "failed" /\ lastSentAt[tasks[t].jid] = Absent
    /\ \E t \in TaskIds : tasks[t].st = "resolved"

\* C35: when the wake-up timer of a loop suspended on the per-minute budget
\* fires at the minute boundary before the reset timer of that boundary, the
\* loop is not suspended on the per-minute budget again (for a whole second
\* minute); the same for the daily budget and the reset at midnight.
C35_ResumesAtBoundary ==
    /\ [][\A l \in LoopIds, d \in RandomDelay :
              (WakeMinute(l, d) /\ minuteTimer.kind # "cleared" /\ now >= minuteTimer.due)
                  => loops'[l].pc # "waitMinute"]_vars
    /\ [][\A l \in LoopIds, d \in RandomDelay :
              (WakeMidnight(l, d) /\ dayTimer.kind # "cleared" /\ now >= dayTimer.due)
                  => loops'[l].pc # "waitMidnight"]_vars

\* C39: when destroy() returns, the minute-reset timer and the day-reset timer
\* are cancelled, be they the first timeout or the interval, so that neither
\* fires later; and every task that was queued has been rejected.
C39_DestroyStopsTimers ==
    [][Destroy =>
          /\ minuteTimer'.kind = "cleared"
          /\ dayTimer'.kind = "cleared"
          /\ \A t \in InQueue(queue) : tasks'[t].st = "cancelled"]_vars

(***************************************************************************)
(* WebhookBridge                                                           *)
(***************************************************************************)
MaxEvents == 1
MaxChains == 1
MaxThrows == 1
MaxFanout == 2
DefaultRetries == 3
DefaultRetryDelayMs == 1000

Endpoints == {"e1", "e2"}
EndpointOrder == <<"e1", "e2">>
Kinds == {"messages.upsert", "presence.update"}

\* DEFAULT_EVENTS (abridged to the kinds of the model)
DEFAULT_EVENTS == {"messages.upsert", "presence.update"}

\* an optional field of WebhookConfig is <<>> (not given) or <<value>>
EventsOptions == {<<>>, <<{"messages.upsert"}>>}
RetriesOptions == {<<>>, <<1>>}
RetryDelayOptions == {<<>>, <<0>>, <<3>>}
NoConfig == [events |-> <<>>, retries |-> <<>>, retryDelayMs |-> <<>>, set |-> FALSE]

\* config.events ?? DEFAULT_EVENTS
ConfiguredEvents(cfg) == IF cfg.events = <<>> THEN DEFAULT_EVENTS ELSE cfg.events[1]

\* config.retries ?? 3
Retries(cfg) == IF cfg.retries = <<>> THEN DefaultRetries ELSE cfg.retries[1]

\* config.retryDelayMs ?? 1000
RetryDelayMs(cfg) == IF cfg.retryDelayMs = <<>> THEN DefaultRetryDelayMs
                     ELSE cfg.retryDelayMs[1]

\* Math.pow(2, attempt)
RECURSIVE TwoToThe(_)
TwoToThe(n) == IF n = 0 THEN 1 ELSE 2 * TwoToThe(n - 1)

\* const delay = (config.retryDelayMs ?? 1000) * Math.pow(2, attempt)
RetryDelayLinear(ms, attempt) == ms * (attempt + 1)
RetryDelay(ms, attempt) == ms * TwoToThe(attempt)

\* configuredEvents.includes(event)
SubscribedToAll(cfg, kind) == TRUE
Subscribed(cfg, kind) == kind \in ConfiguredEvents(cfg)

\* `if (attempt < retries)` in the catch block of _sendWithRetry
RetryAllowedOnceMore(attempt, retries) == attempt <= retries
RetryAllowed(attempt, retries) == attempt < retries

WebhookInit ==
    /\ configs = [e \in Endpoints |-> NoConfig]
    /\ deliveries = <<>>
    /\ dispatched = <<>>

\* addEndpoint(id, config)
AddEndpointWith(id, events, retries, delayMs) ==
    /\ configs' = [configs EXCEPT ![id] = [events |-> events, retries |-> retries,
                                           retryDelayMs |-> delayMs, set |-> TRUE]]
    /\ UNCHANGED <<deliveries, dispatched>>
    /\ UNCHANGED <<queueVars, sessionVars, schedulerVars>>

\* addEndpoint(id, config) with no retryDelayMs in the config
AddEndpoint(id, events, retries) == AddEndpointWith(id, events, retries, <<>>)

\* the chains once this.configs.delete(id) has run: each holds its own
\* reference to the config object and goes on
ChainsCancelledByRemove(id) ==
    [i \in DOMAIN deliveries |->
        IF deliveries[i].ep = id /\ deliveries[i].pc = "backoff"
        THEN [deliveries[i] EXCEPT !.pc = "exhausted"]
        ELSE deliveries[i]]
ChainsAfterRemove(id) == deliveries

\* removeEndpoint(id)
RemoveEndpoint(id) ==
    /\ configs[id].set
    /\ configs' = [configs EXCEPT ![id] = NoConfig]
    /\ deliveries' = ChainsAfterRemove(id)
    /\ UNCHANGED dispatched
    /\ UNCHANGED <<queueVars, sessionVars, schedulerVars>>

\* this.webhookId, made by the constructor and never assigned again
WebhookId == "wh_1"

\* Date.now() in _dispatch: the model's clock ticks once per dispatch
Timestamp == Len(dispatched) + 1

\* the payload object _dispatch builds for an event of this kind
Payload(kind) == [event |-> kind, timestamp |-> Timestamp, webhookId |-> WebhookId]

\* the chain _sendWithRetry(id, config, event, payload) at its first _httpPost;
\* of the config object it holds, the chain reads config.retries ?? 3; it
\* holds the payload object, and `sent` is every body it has posted (history)
NewDelivery(ev, id, payload) ==
    [ev |-> ev, ep |-> id, retries |-> Retries(configs[id]), attempt |-> 0,
     pc |-> "posting", posts |-> 1, onSuccess |-> 0, onError |-> 0,
     payload |-> payload, sent |-> {payload}, inflight |-> 1,
     retryDelayMs |-> RetryDelayMs(configs[id]), delays |-> <<>>]

\* history: the registered endpoints whose configured events hold `kind`, and
\* those whose configured events lack it
ConfiguredFor(kind) ==
    { e \in Endpoints : configs[e].set /\ kind \in ConfiguredEvents(configs[e]) }
NotConfiguredFor(kind) ==
    { e \in Endpoints : configs[e].set /\ kind \notin ConfiguredEvents(configs[e]) }

\* the endpoints _dispatch starts a chain for, in the order of EndpointOrder
Targets(kind) ==
    SelectSeq(EndpointOrder, LAMBDA id : configs[id].set /\ Subscribed(configs[id], kind))

\* the chains _dispatch starts without awaiting them: one per target
StartedFirstOnly(tg) == IF tg = <<>> THEN tg ELSE <<Head(tg)>>
Started(tg) == tg

\* _dispatch(event, data), from send() or from a listener of attach(), with
\* room for at most `limit` chains in the model
DispatchWithin(kind, limit) ==
    /\ Len(dispatched) < MaxEvents
    /\ LET ev == Len(dispatched) + 1
           tg == Started(Targets(kind))
       IN  /\ Len(deliveries) + Len(tg) <= limit
           /\ dispatched' = Append(dispatched, [kind |-> kind, eligible |-> ConfiguredFor(kind),
                                                    skipped |-> NotConfiguredFor(kind),
                                                    payload |-> Payload(kind)])
           /\ deliveries' = deliveries \o
                                [i \in 1..Len(tg) |-> NewDelivery(ev, tg[i], Payload(kind))]
    /\ UNCHANGED configs
    /\ UNCHANGED <<queueVars, sessionVars, schedulerVars>>

Dispatch(kind) == DispatchWithin(kind, MaxChains)

\* _dispatch for a bridge whose endpoints were all registered beforehand
Fanout(kind) == DispatchWithin(kind, MaxFanout)

\* addEndpoint(id, config) while the bridge is set up, before the first event
Configure(id, events, retries) ==
    /\ dispatched = <<>>
    /\ AddEndpoint(id, events, retries)

\* the catch block of _sendWithRetry, and the catch of _dispatch when it rethrows
Failed(d) ==
    IF RetryAllowed(d.attempt, d.retries)
    THEN [d EXCEPT !.pc = "backoff",
                   !.delays = Append(@, RetryDelay(d.retryDelayMs, d.attempt))]
    ELSE [d EXCEPT !.pc = "exhausted", !.onError = d.onError + 1]

\* the requests of a chain still open once _httpPost has settled: the response
\* came, or the request was destroyed on timeout, or it failed
OpenAfterSettleWithoutDestroy(n) == n
OpenAfterSettle(n) == n - 1

\* the payload the retry posts: the one _sendWithRetry was called with
RestampedOnRetry(d) == [d.payload EXCEPT !.timestamp = @ + d.attempt + 1]
PayloadOfRetry(d) == d.payload

\* _httpPost resolves (HTTP 2xx): onSuccess is called, and may throw into the catch
PostSucceeded(i, throws) ==
    /\ i \in 1..Len(deliveries)
    /\ deliveries[i].pc = "posting"
    /\ throws => deliveries[i].onSuccess < MaxThrows
    /\ LET d == [deliveries[i] EXCEPT !.onSuccess = @ + 1,
                                      !.inflight = OpenAfterSettle(@)]
       IN  deliveries' = [deliveries EXCEPT ![i] =
                              IF throws THEN Failed(d) ELSE [d EXCEPT !.pc = "delivered"]]
    /\ UNCHANGED <<configs, dispatched>>
    /\ UNCHANGED <<queueVars, sessionVars, schedulerVars>>

\* _httpPost rejects (non-2xx status, timeout or transport error)
PostFailed(i) ==
    /\ i \in 1..Len(deliveries)
    /\ deliveries[i].pc = "posting"
    /\ deliveries' = [deliveries EXCEPT ![i] =
                           Failed([deliveries[i] EXCEPT !.inflight = OpenAfterSettle(@)])]
    /\ UNCHANGED <<configs, dispatched>>
    /\ UNCHANGED <<queueVars, sessionVars, schedulerVars>>

\* the backoff timer fires: _sendWithRetry(..., attempt + 1) posts again
BackoffElapsed(i) ==
    /\ i \in 1..Len(deliveries)
    /\ deliveries[i].pc = "backoff"
    /\ deliveries' = [deliveries EXCEPT ![i].pc = "posting",
                                        ![i].attempt = @ + 1,
                                        ![i].posts = @ + 1,
                                        ![i].inflight = @ + 1,
                                        ![i].sent = @ \cup {PayloadOfRetry(deliveries[i])}]
    /\ UNCHANGED <<configs, dispatched>>
    /\ UNCHANGED <<queueVars, sessionVars, schedulerVars>>

\* a bridge whose endpoints come and go while events are delivered; every
\* endpoint is registered with its own retries
WebhookNext ==
    \/ \E id \in Endpoints, ev \in EventsOptions, r \in RetriesOptions \ {<<>>} :
           AddEndpoint(id, ev, r)
    \/ \E id \in Endpoints : RemoveEndpoint(id)
    \/ \E k \in Kinds : Dispatch(k)
    \/ \E i \in 1..MaxChains, th \in BOOLEAN : PostSucceeded(i, th)
    \/ \E i \in 1..MaxChains : PostFailed(i)
    \/ \E i \in 1..MaxChains : BackoffElapsed(i)

\* addEndpoint(id, config) with any retryDelayMs, before the first event
ConfigureDelay(id, events, retries, delayMs) ==
    /\ dispatched = <<>>
    /\ AddEndpointWith(id, events, retries, delayMs)

\* a bridge set up with the backoff of each endpoint, and then fed events
BackoffNext ==
    \/ \E id \in Endpoints, ev \in EventsOptions, r \in RetriesOptions,
          ms \in RetryDelayOptions : ConfigureDelay(id, ev, r, ms)
    \/ \E k \in Kinds : Fanout(k)
    \/ \E i \in 1..MaxFanout, th \in BOOLEAN : PostSucceeded(i, th)
    \/ \E i \in 1..MaxFanout : PostFailed(i)
    \/ \E i \in 1..MaxFanout : BackoffElapsed(i)

\* a bridge set up first and then fed events
FanoutNext ==
    \/ \E id \in Endpoints, ev \in EventsOptions, r \in RetriesOptions : Configure(id, ev, r)
    \/ \E k \in Kinds : Fanout(k)
    \/ \E i \in 1..MaxFanout, th \in BOOLEAN : PostSucceeded(i, th)
    \/ \E i \in 1..MaxFanout : PostFailed(i)
    \/ \E i \in 1..MaxFanout : BackoffElapsed(i)

(***************************************************************************)
(* Claims about WebhookBridge                                              *)
(***************************************************************************)
DeliveryIds == 1..Len(deliveries)

\* C6: a chain whose every attempt failed makes exactly retries + 1 attempts,
\* then onError runs exactly once and no further attempt is made; no chain
\* ever makes more than retries + 1 attempts or calls onError twice.
C6_ExactlyRetriesPlusOne ==
    \A i \in DeliveryIds :
        LET d == deliveries[i]
        IN  /\ d.posts <= d.retries + 1
            /\ d.onError <= 1
            /\ d.onError = 1 => d.pc = "exhausted"
            /\ (d.pc = "exhausted" /\ d.onSuccess = 0)
                   => (d.posts = d.retries + 1 /\ d.onError = 1)
            /\ (d.onSuccess = 0 /\ d.pc # "exhausted")
                   => (d.pc \in {"posting", "backoff"} /\ d.onError = 0)

\* C6 witness: a chain with at least one retry configured has failed on every attempt
C6_Witness ==
    \E i \in DeliveryIds :
        /\ deliveries[i].pc = "exhausted"
        /\ deliveries[i].onSuccess = 0
        /\ deliveries[i].posts >= 2

\* C7: a chain for an event of kind k is started for endpoint e only if e was
\* registered with k among its events when the event was dispatched, and never
\* for an endpoint registered then without k (for example one subscribed only
\* to messages.upsert, for a presence.update event).
C7_OnlySubscribedKinds ==
    \A i \in DeliveryIds :
        LET d == deliveries[i]
        IN  /\ d.ep \in dispatched[d.ev].eligible
            /\ d.ep \notin dispatched[d.ev].skipped

\* C7 witness: presence.update was dispatched while one endpoint was registered
\* without it (only for messages.upsert) and another one with it
C7_Witness ==
    \E n \in 1..Len(dispatched) :
        /\ dispatched[n].kind = "presence.update"
        /\ dispatched[n].skipped # {}
        /\ \E i \in DeliveryIds : deliveries[i].ev = n

\* C22: the step of a dispatch ends with the first attempt of every subscribed
\* endpoint in flight and none completed, and leaves the chains of earlier
\* events as they are; every later step changes one chain only; and whatever
\* the other chains do, a chain with an attempt in flight can have it succeed
\* or fail and a chain in its backoff can post again.
C22_ProducerAndEndpointsIndependent ==
    /\ [][Len(dispatched') > Len(dispatched) =>
             /\ \A i \in DeliveryIds : deliveries'[i] = deliveries[i]
             /\ \A e \in dispatched'[Len(dispatched')].eligible :
                    \E i \in (Len(deliveries) + 1)..Len(deliveries') :
                        deliveries'[i] = NewDelivery(Len(dispatched'), e,
                                                     dispatched'[Len(dispatched')].payload)]_vars
    /\ [][Len(dispatched') = Len(dispatched) =>
             /\ Len(deliveries') = Len(deliveries)
             /\ \A i \in DeliveryIds, j \in DeliveryIds :
                    (i # j /\ deliveries'[i] # deliveries[i])
                        => deliveries'[j] = deliveries[j]]_vars
    /\ [](\A i \in DeliveryIds :
             /\ deliveries[i].pc = "posting" =>
                    (ENABLED PostFailed(i) /\ ENABLED PostSucceeded(i, FALSE))
             /\ deliveries[i].pc = "backoff" => ENABLED BackoffElapsed(i))

\* C22 witness: of two endpoints sent the same event, one has not answered its
\* first attempt and the other has been delivered to
C22_Witness ==
    \E i \in DeliveryIds, j \in DeliveryIds :
        /\ i # j /\ deliveries[i].ev = deliveries[j].ev
        /\ deliveries[i].pc = "posting" /\ deliveries[i].posts = 1
        /\ deliveries[j].pc = "delivered"

\* C28: every body posted for an event, by every chain and on every attempt, is
\* the payload built when the event was dispatched, with its timestamp and
\* with the webhookId of the bridge; every event dispatched carries that
\* webhookId.
C28_SamePayloadEveryAttempt ==
    /\ \A n \in 1..Len(dispatched) : dispatched[n].payload.webhookId = WebhookId
    /\ \A i \in DeliveryIds :
           deliveries[i].sent = {dispatched[deliveries[i].ev].payload}

\* C28 witness: two endpoints were sent the same event and one of them is at
\* least at its second attempt
C28_Witness ==
    \E i \in DeliveryIds, j \in DeliveryIds :
        /\ deliveries[i].ev = deliveries[j].ev /\ deliveries[i].ep # deliveries[j].ep
        /\ deliveries[i].posts >= 2

\* C29: a chain has at most one request open, and there is one chain per
\* endpoint and event; a chain posts again only from its backoff, with no
\* request open, and it enters its backoff only when the request of its
\* attempt has settled and the catch block was reached.
C29_AttemptsSequential ==
    /\ [](\A i \in DeliveryIds :
             /\ deliveries[i].inflight <= 1
             /\ deliveries[i].inflight = 1 <=> deliveries[i].pc = "posting"
             /\ \A j \in DeliveryIds :
                    (deliveries[i].ep = deliveries[j].ep /\ deliveries[i].ev = deliveries[j].ev)
                        => i = j)
    /\ [][\A i \in DeliveryIds :
             /\ deliveries'[i].posts # deliveries[i].posts
                    => /\ deliveries[i].pc = "backoff" /\ deliveries[i].inflight = 0
                       /\ deliveries'[i].posts = deliveries[i].posts + 1
                       /\ deliveries'[i].attempt = deliveries[i].attempt + 1
             /\ (deliveries'[i].pc = "backoff" /\ deliveries[i].pc # "backoff")
                    => deliveries[i].pc = "posting" /\ deliveries'[i].inflight = 0]_vars

\* C29 witness: the second attempt of a chain is in flight
C29_Witness ==
    \E i \in DeliveryIds :
        /\ deliveries[i].posts = 2 /\ deliveries[i].pc = "posting"
        /\ deliveries[i].inflight = 1

\* C30: the endpoints with a chain for an event are exactly those registered
\* with the event's kind when it was dispatched; a later addEndpoint or
\* removeEndpoint changes no chain, and a chain keeps its endpoint, its event
\* and the retries it read, and a chain in its backoff can post again whether
\* or not its endpoint is still registered.
C30_TargetsFixedAtDispatch ==
    /\ [](\A n \in 1..Len(dispatched) :
             { deliveries[i].ep : i \in { j \in DeliveryIds : deliveries[j].ev = n } }
                 = dispatched[n].eligible)
    /\ [](\A i \in DeliveryIds : deliveries[i].pc = "backoff" => ENABLED BackoffElapsed(i))
    /\ [][configs' # configs => deliveries' = deliveries]_vars
    /\ [][\A i \in DeliveryIds :
             /\ deliveries'[i].ep = deliveries[i].ep
             /\ deliveries'[i].ev = deliveries[i].ev
             /\ deliveries'[i].retries = deliveries[i].retries]_vars

\* C30 witness: a chain is at its second attempt after its endpoint was removed,
\* and an endpoint registered since for the kind of the event has no chain
C30_Witness ==
    \E i \in DeliveryIds, e \in Endpoints :
        /\ ~configs[deliveries[i].ep].set
        /\ deliveries[i].posts >= 2 /\ deliveries[i].pc = "posting"
        /\ configs[e].set /\ Subscribed(configs[e], dispatched[deliveries[i].ev].kind)
        /\ e \notin dispatched[deliveries[i].ev].eligible
        /\ \A j \in DeliveryIds : deliveries[j].ep # e

\* C32 as stated: the delays of every chain are retryDelayMs * 2^attempt for
\* attempt = 0, 1, ... and strictly increasing, whatever retryDelayMs is.
C32_DelaysStrictlyIncreasing ==
    \A i \in DeliveryIds :
        /\ \A k \in DOMAIN deliveries[i].delays :
               deliveries[i].delays[k] = deliveries[i].retryDelayMs * TwoToThe(k - 1)
        /\ \A k \in DOMAIN deliveries[i].delays :
               k > 1 => deliveries[i].delays[k - 1] < deliveries[i].delays[k]

\* C32 amended: the delays of every chain are retryDelayMs * 2^attempt for
\* attempt = 0..retries-1, one per failed attempt that is retried; they are
\* strictly increasing if retryDelayMs > 0 and all 0 if retryDelayMs is 0.
C32_DelaysDoubling ==
    \A i \in DeliveryIds :
        LET d == deliveries[i]
        IN  /\ Len(d.delays) = d.posts - (IF d.pc = "backoff" THEN 0 ELSE 1)
            /\ Len(d.delays) <= d.retries
            /\ \A k \in DOMAIN d.delays : d.delays[k] = d.retryDelayMs * TwoToThe(k - 1)
            /\ \A k \in DOMAIN d.delays :
                   k > 1 => IF d.retryDelayMs > 0 THEN d.delays[k - 1] < d.delays[k]
                            ELSE d.delays[k] = 0

\* C32 witness: a chain configured with retryDelayMs 3 and the default retries
\* has waited 3, 6 and 12
C32_Witness ==
    \E i \in DeliveryIds : deliveries[i].delays = <<3, 6, 12>>

\* C40: of the callbacks of a chain at most one is invoked, and once: onSuccess
\* on the first attempt answered with 2xx, which ends the chain, and onError
\* once retries + 1 attempts have been made and none was answered with 2xx; a
\* chain that has ended has invoked exactly one of them.
C40_ExactlyOneCallback ==
    \A i \in DeliveryIds :
        LET d == deliveries[i]
        IN  /\ d.onSuccess + d.onError <= 1
            /\ d.onSuccess = 1 => d.pc = "delivered"
            /\ d.onError = 1 => d.pc = "exhausted" /\ d.posts = d.retries + 1
            /\ d.pc \in {"delivered", "exhausted"} => d.onSuccess + d.onError = 1

(***************************************************************************)
(* SessionManager                                                          *)
(***************************************************************************)
MaxSocks == 2
MaxPending == 1
MaxReconnectAttempts == 2
MaxWaiters == 1
ReconnectDelayMs == 4
BackoffNum == 3
BackoffDen == 2

Ids == {"s1", "s2"}

\* the id of a manager that runs one session
Single == {"s1"}
NoRef == 0
NoSession == [reg |-> FALSE, info |-> NoRef, sock |-> NoRef]
NoClose == [seen |-> FALSE, reg |-> FALSE, before |-> 0, after |-> 0, scheduled |-> FALSE,
            k |-> 0, delay |-> <<0, 1>>]

\* a connection.update of the socket: a QR code, open, or close with a status code
Updates == {"qr", "open", "closeLoggedOut", "close"}

\* { id, status: 'initializing' }
NewInfo == [status |-> "initializing", qr |-> "none"]

\* the object a reader holds: a reference to a SessionInfo, with the fields it
\* had when it was returned (history)
Holds(op, ref, taken) == [op |-> op, ref |-> ref, taken |-> taken]
NoHeld == Holds("none", NoRef, NewInfo)

\* a call of op for id and the error it threw ("none" if it threw nothing)
Call(op, id, error) == [op |-> op, id |-> id, error |-> error]
NoCall == Call("none", "none", "none")

\* this.sessions.has(id)
HasSession(id) == sessions[id].reg

\* `const session = this.sessions.get(id)` of destroySession is not undefined
SessionFoundAlways(id) == TRUE
SessionFound(id) == sessions[id].reg

\* this.reconnectAttempts.get(id) ?? 0
Attempts(id) == IF reconnectAttempts[id] = Absent THEN 0 ELSE reconnectAttempts[id]

\* `if (attempts <= this.config.maxReconnectAttempts)`
ShouldReconnectAlways(attempts) == TRUE
ShouldReconnect(attempts) == attempts <= MaxReconnectAttempts

\* `if (this.config.autoReconnect && this.sessions.has(id))`
CountsCloseNever(id) == FALSE
CountsClose(id) == autoReconnect /\ sessions[id].reg

RECURSIVE Pow(_, _)
Pow(b, e) == IF e = 0 THEN 1 ELSE b * Pow(b, e - 1)

\* the exponent of `Math.pow(1.5, attempts - 1)`
DelayExponentOffByOne(attempts) == attempts
DelayExponent(attempts) == attempts - 1

\* `this.config.reconnectDelayMs * Math.pow(1.5, attempts - 1)`, as the exact
\* ratio <<numerator, denominator>> (1.5 is BackoffNum / BackoffDen)
Delay(attempts) ==
    <<ReconnectDelayMs * Pow(BackoffNum, DelayExponent(attempts)),
      Pow(BackoffDen, DelayExponent(attempts))>>

\* history: the end-to-end scenario goes on from step `from` to step `to`,
\* and is left by every other step
Follow(from, to) == IF scenario = from THEN to ELSE "off"

\* the attempt numbers a timer can be scheduled for
AttemptNumbers == 1..(MaxReconnectAttempts + 2)

RECURSIVE SumUpTo(_, _)
SumUpTo(f, n) == IF n = 0 THEN 0 ELSE f[n] + SumUpTo(f, n - 1)

\* pending reconnect timers of id
Pending(id) == SumUpTo(timers[id], MaxReconnectAttempts + 2)

Booting(id) == booting[id].create + booting[id].reconnect

SessionInit ==
    /\ autoReconnect \in BOOLEAN
    /\ sessions = [id \in Ids |-> NoSession]
    /\ infos = <<>>
    /\ socks = <<>>
    /\ reconnectAttempts = [id \in Ids |-> Absent]
    /\ timers = [id \in Ids |-> [a \in AttemptNumbers |-> 0]]
    /\ booting = [id \in Ids |-> [create |-> 0, reconnect |-> 0]]
    /\ guarded = [id \in Ids |-> FALSE]
    /\ zombie = [id \in Ids |-> FALSE]
    /\ lastClose = NoClose
    /\ scheduledSince = [id \in Ids |-> 0]
    /\ pendingSnaps = [id \in Ids |-> {}]
    /\ lastCall = NoCall
    /\ waiters = <<>>
    /\ scenario = "fresh"
    /\ held = NoHeld

\* `if (info.status === 'logged_out')` of the onStatus listener
RejectsOnAny(status) == TRUE
RejectsOn(status) == status = "logged_out"

\* resolve or reject of the promise of waiter w: the first call settles it
SettleWait(w, outcome) ==
    [w EXCEPT !.state = IF @ = "pending" THEN outcome ELSE @, !.settled = @ + 1]

\* clearTimeout(timer)
ClearTimeout(w) == [w EXCEPT !.timer = FALSE]

\* cleanup(): both listeners are taken off the emitter
CleanupConnectedOnly(w) == [w EXCEPT !.onConnected = FALSE]
Cleanup(w) == [w EXCEPT !.onConnected = FALSE, !.onStatus = FALSE]

\* the onStatus listener of waiter w, called with a session.status event
OnStatus(w, id, status) ==
    IF w.onStatus /\ w.id = id /\ RejectsOn(status)
    THEN SettleWait(Cleanup(ClearTimeout(w)), "loggedOut")
    ELSE w

\* the onConnected listener of waiter w, called with a session.connected event
OnConnected(w, id) ==
    IF w.onConnected /\ w.id = id
    THEN SettleWait(Cleanup(ClearTimeout(w)), "resolved")
    ELSE w

\* this.emit('session.status', { ...info }) of _updateStatus
EmitStatus(ws, id, status) == [i \in DOMAIN ws |-> OnStatus(ws[i], id, status)]

\* this.emit('session.connected', id, phoneNumber)
EmitConnected(ws, id) == [i \in DOMAIN ws |-> OnConnected(ws[i], id)]

\* history: what a socket of id has just reported is the first such report
\* since the call of every waiter for id that has none yet
Observe(ws, id, what) ==
    [i \in DOMAIN ws |->
        IF ws[i].id = id /\ ws[i].first = "none" THEN [ws[i] EXCEPT !.first = what] ELSE ws[i]]

\* sockets made or about to be made
SocketsInUse == Len(socks) + Cardinality({ <<id, n>> \in Ids \X (1..MaxSocks) : n <= Booting(id) })

\* createSession(id) up to the await in _boot; it throws if the id is registered
\* (the bound on sockets stops the model, not the program)
CreateSession(id) ==
    IF HasSession(id)
    THEN /\ lastCall' = Call("createSession", id, "DuplicateSession")
         /\ scenario' = "off"
         /\ lastClose' = NoClose
         /\ UNCHANGED <<autoReconnect, sessions, infos, socks, reconnectAttempts, timers,
                        booting, guarded, zombie, scheduledSince, pendingSnaps, waiters>>
         /\ UNCHANGED <<queueVars, webhookVars, readerVars, schedulerVars>>
    ELSE /\ SocketsInUse < MaxSocks
         /\ booting' = [booting EXCEPT ![id].create = @ + 1]
         /\ guarded' = [guarded EXCEPT ![id] = FALSE]
         /\ zombie' = [zombie EXCEPT ![id] = FALSE]
         /\ lastCall' = Call("createSession", id, "none")
         /\ waiters' = EmitStatus(waiters, id, "initializing")
         /\ scenario' = Follow("fresh", "created")
         /\ lastClose' = NoClose
         /\ UNCHANGED <<autoReconnect, sessions, infos, socks, reconnectAttempts, timers,
                        scheduledSince, pendingSnaps>>
         /\ UNCHANGED <<queueVars, webhookVars, readerVars, schedulerVars>>

\* _boot(id) after useMultiFileAuthState resolved: the socket is made and registered
BootLoaded(id, caller) ==
    /\ booting[id][caller] > 0
    /\ booting' = [booting EXCEPT ![id][caller] = @ - 1]
    /\ LET fresh == ~sessions[id].reg
           info == IF fresh THEN Len(infos) + 1 ELSE sessions[id].info
           sock == Len(socks) + 1
       IN  /\ infos' = IF fresh THEN Append(infos, NewInfo) ELSE infos
           /\ socks' = Append(socks, [id |-> id, info |-> info, wsClosed |-> FALSE])
           /\ sessions' = [sessions EXCEPT ![id] = [reg |-> TRUE, info |-> info, sock |-> sock]]
    /\ lastClose' = NoClose
    /\ UNCHANGED <<autoReconnect, reconnectAttempts, timers, guarded, zombie,
                   scheduledSince, pendingSnaps, waiters>>
    /\ lastCall' = NoCall
    /\ scenario' = IF caller = "create" THEN Follow("created", "booted") ELSE "off"
    /\ UNCHANGED <<queueVars, webhookVars, readerVars, schedulerVars>>

\* this.sessions after the await of useMultiFileAuthState has thrown: nothing
\* below the await runs
EntryAfterLoadFailure(id) == [sessions EXCEPT ![id].reg = TRUE]
AfterLoadFailure(id) == sessions

\* _boot(id) when useMultiFileAuthState rejects: nothing is registered
BootFailed(id, caller) ==
    /\ booting[id][caller] > 0
    /\ booting' = [booting EXCEPT ![id][caller] = @ - 1]
    /\ sessions' = AfterLoadFailure(id)
    /\ lastClose' = NoClose
    /\ UNCHANGED <<autoReconnect, infos, socks, reconnectAttempts, timers,
                   guarded, zombie, scheduledSince, pendingSnaps, waiters>>
    /\ lastCall' = IF caller = "create"
                   THEN Call("createSession", id, "AuthLoadFailure")
                   ELSE NoCall
    /\ scenario' = "off"
    /\ UNCHANGED <<queueVars, webhookVars, readerVars, schedulerVars>>

\* setTimeout(() => this._boot(id), delay) fires
ReconnectTimerFires(id, a) ==
    /\ timers[id][a] > 0
    /\ SocketsInUse < MaxSocks
    /\ timers' = [timers EXCEPT ![id][a] = @ - 1]
    /\ booting' = [booting EXCEPT ![id].reconnect = @ + 1]
    /\ zombie' = [zombie EXCEPT ![id] = @ \/ guarded[id]]
    /\ lastClose' = NoClose
    /\ UNCHANGED <<autoReconnect, sessions, infos, socks, reconnectAttempts, guarded,
                   scheduledSince, pendingSnaps, waiters>>
    /\ lastCall' = NoCall
    /\ scenario' = Follow("closed", "rebooted")
    /\ UNCHANGED <<queueVars, webhookVars, readerVars, schedulerVars>>

\* _updateStatus(id, info): the session, if registered, is pointed at info
UpdateStatus(id, info) ==
    IF sessions[id].reg THEN [sessions EXCEPT ![id].info = info] ELSE sessions

\* the connection.update handler of socket s for a QR code
OnQr(s) ==
    /\ infos' = [infos EXCEPT ![socks[s].info].qr = "ABC",
                              ![socks[s].info].status = "qr_ready"]
    /\ sessions' = UpdateStatus(socks[s].id, socks[s].info)
    /\ waiters' = EmitStatus(waiters, socks[s].id, "qr_ready")
    /\ lastClose' = NoClose
    /\ UNCHANGED <<reconnectAttempts, timers, scheduledSince, pendingSnaps>>

\* this.reconnectAttempts.set(id, 0)
ResetAttemptsOfAll(id) == [i \in Ids |-> 0]
ResetAttemptsKept(id) == reconnectAttempts
ResetAttempts(id) == [reconnectAttempts EXCEPT ![id] = 0]

\* the connection.update handler of socket s for connection === 'open'
OnOpen(s) ==
    /\ infos' = [infos EXCEPT ![socks[s].info] =
                     [status |-> "connected", qr |-> "none"]]
    /\ reconnectAttempts' = ResetAttempts(socks[s].id)
    /\ sessions' = UpdateStatus(socks[s].id, socks[s].info)
    /\ scheduledSince' = [scheduledSince EXCEPT ![socks[s].id] = 0]
    /\ waiters' = EmitConnected(EmitStatus(Observe(waiters, socks[s].id, "connected"),
                                           socks[s].id, "connected"),
                                socks[s].id)
    /\ lastClose' = NoClose
    /\ UNCHANGED <<timers, pendingSnaps>>

\* info.status = 'logged_out', whatever the status was
StatusOnLogoutIfWasConnected(prev) ==
    IF prev \in {"initializing", "qr_ready"} THEN prev ELSE "logged_out"
StatusOnLogout(prev) == "logged_out"

\* the connection.update handler of socket s for a close with DisconnectReason.loggedOut
OnCloseLoggedOut(s) ==
    /\ infos' = [infos EXCEPT ![socks[s].info].status = StatusOnLogout(@)]
    /\ sessions' = UpdateStatus(socks[s].id, socks[s].info)
    /\ waiters' = EmitStatus(Observe(waiters, socks[s].id, "logged_out"),
                             socks[s].id, "logged_out")
    /\ lastClose' = NoClose
    /\ UNCHANGED <<reconnectAttempts, timers, scheduledSince, pendingSnaps>>

\* the connection.update handler of socket s for a close with any other status code
OnClose(s) ==
    LET id == socks[s].id
        attempts == Attempts(id) + 1
        counted == CountsClose(id)
        scheduled == counted /\ ShouldReconnect(attempts)
    IN  /\ reconnectAttempts[id] <= MaxReconnectAttempts + 1
        /\ scheduled => Pending(id) < MaxPending
        /\ infos' = [infos EXCEPT ![socks[s].info].status = "disconnected"]
        /\ sessions' = UpdateStatus(id, socks[s].info)
        /\ waiters' = EmitStatus(waiters, id, "disconnected")
        /\ reconnectAttempts' = IF counted
                                THEN [reconnectAttempts EXCEPT ![id] = attempts]
                                ELSE reconnectAttempts
        /\ timers' = IF scheduled
                     THEN [timers EXCEPT ![id][attempts] = @ + 1]
                     ELSE timers
        /\ lastClose' = [seen |-> TRUE, reg |-> sessions[id].reg, before |-> Attempts(id),
                         after |-> IF counted THEN attempts ELSE Attempts(id),
                         scheduled |-> scheduled,
                         k |-> IF scheduled THEN scheduledSince[id] + 1 ELSE 0,
                         delay |-> IF scheduled THEN Delay(attempts) ELSE <<0, 1>>]
        /\ scheduledSince' = IF scheduled
                             THEN [scheduledSince EXCEPT ![id] = @ + 1]
                             ELSE scheduledSince
        /\ pendingSnaps' = IF scheduled
                           THEN [pendingSnaps EXCEPT ![id] = @ \cup {infos'[socks[s].info]}]
                           ELSE pendingSnaps

\* sock.ev emits connection.update u on socket s
ConnectionUpdate(s, u) ==
    /\ s \in 1..Len(socks)
    /\ CASE u = "qr" -> OnQr(s)
         [] u = "open" -> OnOpen(s)
         [] u = "closeLoggedOut" -> OnCloseLoggedOut(s)
         [] u = "close" -> OnClose(s)
    /\ UNCHANGED <<autoReconnect, socks, booting, guarded, zombie>>
    /\ lastCall' = NoCall
    /\ scenario' = CASE u = "qr" -> Follow("booted", "qr")
                      [] u = "open" -> Follow("qr", "open")
                      [] u = "close" -> Follow("open", "closed")
                      [] OTHER -> "off"
    /\ UNCHANGED <<queueVars, webhookVars, readerVars, schedulerVars>>

\* the connection.update handler of socket s when a listener of 'session.status'
\* throws: the handler ends inside _updateStatus, at the emit
HandlerRaises(s, u) ==
    /\ s \in 1..Len(socks)
    /\ infos' = CASE u = "qr" -> [infos EXCEPT ![socks[s].info].qr = "ABC",
                                               ![socks[s].info].status = "qr_ready"]
                  [] u = "open" -> [infos EXCEPT ![socks[s].info] =
                                        [status |-> "connected", qr |-> "none"]]
                  [] u = "closeLoggedOut" ->
                         [infos EXCEPT ![socks[s].info].status = "logged_out"]
                  [] u = "close" ->
                         [infos EXCEPT ![socks[s].info].status = "disconnected"]
    /\ reconnectAttempts' = IF u = "open" THEN ResetAttempts(socks[s].id)
                            ELSE reconnectAttempts
    /\ scheduledSince' = IF u = "open" THEN [scheduledSince EXCEPT ![socks[s].id] = 0]
                         ELSE scheduledSince
    /\ sessions' = UpdateStatus(socks[s].id, socks[s].info)
    /\ lastClose' = NoClose
    /\ lastCall' = NoCall
    /\ scenario' = "off"
    /\ UNCHANGED <<autoReconnect, socks, timers, booting, guarded, zombie, pendingSnaps,
                   waiters>>
    /\ UNCHANGED <<queueVars, webhookVars, readerVars, schedulerVars>>

\* the messages.upsert handler of socket s: it emits 'message.received' and calls
\* config.onMessage, which may throw
MessagesUpsert(s, raises) ==
    /\ s \in 1..Len(socks)
    /\ lastClose' = NoClose
    /\ lastCall' = NoCall
    /\ UNCHANGED <<scenario, autoReconnect, sessions, infos, socks, reconnectAttempts, timers,
                   booting, guarded, zombie, scheduledSince, pendingSnaps, waiters>>
    /\ UNCHANGED <<queueVars, webhookVars, readerVars, schedulerVars>>

\* destroySession(id); it throws if the id is not registered
DestroySession(id) ==
    IF ~SessionFound(id)
    THEN /\ lastCall' = Call("destroySession", id, "SessionNotFound")
         /\ scenario' = "off"
         /\ lastClose' = NoClose
         /\ UNCHANGED <<autoReconnect, sessions, infos, socks, reconnectAttempts, timers,
                        booting, guarded, zombie, scheduledSince, pendingSnaps, waiters>>
         /\ UNCHANGED <<queueVars, webhookVars, readerVars, schedulerVars>>
    ELSE /\ socks' = [socks EXCEPT ![sessions[id].sock].wsClosed = TRUE]
         /\ sessions' = [sessions EXCEPT ![id] = NoSession]
         /\ reconnectAttempts' = [reconnectAttempts EXCEPT ![id] = Absent]
         /\ guarded' = [guarded EXCEPT ![id] = Pending(id) > 0]
         /\ scheduledSince' = [scheduledSince EXCEPT ![id] = 0]
         /\ pendingSnaps' = [pendingSnaps EXCEPT ![id] = {}]
         /\ lastCall' = Call("destroySession", id, "none")
         /\ scenario' = "off"
         /\ lastClose' = NoClose
         /\ UNCHANGED <<autoReconnect, infos, timers, booting, zombie, waiters>>
         /\ UNCHANGED <<queueVars, webhookVars, readerVars, schedulerVars>>

\* waitForConnected(id, timeoutMs) up to its return: it resolves at once if the
\* session is connected, else it starts the timer and attaches both listeners
WaitForConnected(id) ==
    /\ Len(waiters) < MaxWaiters
    /\ LET connected == sessions[id].reg /\ infos[sessions[id].info].status = "connected"
       IN  waiters' = Append(waiters,
               IF connected
               THEN [id |-> id, state |-> "resolved", settled |-> 1, immediate |-> TRUE,
                     timer |-> FALSE, onConnected |-> FALSE, onStatus |-> FALSE,
                     first |-> "connected"]
               ELSE [id |-> id, state |-> "pending", settled |-> 0, immediate |-> FALSE,
                     timer |-> TRUE, onConnected |-> TRUE, onStatus |-> TRUE,
                     first |-> "none"])
    /\ lastCall' = NoCall
    /\ lastClose' = NoClose
    /\ UNCHANGED <<autoReconnect, sessions, infos, socks, reconnectAttempts, timers,
                   booting, guarded, zombie, scheduledSince, pendingSnaps>>
    /\ scenario' = "off"
    /\ UNCHANGED <<queueVars, webhookVars, readerVars, schedulerVars>>

\* the timer of waiter w fires after timeoutMs: cleanup() and reject
WaitTimeout(w) ==
    /\ w \in 1..Len(waiters)
    /\ waiters[w].timer
    /\ waiters' = [waiters EXCEPT ![w] =
                       SettleWait(Cleanup([@ EXCEPT !.timer = FALSE,
                                                   !.first = IF @ = "none" THEN "timeout" ELSE @]),
                                  "timeout")]
    /\ lastCall' = NoCall
    /\ lastClose' = NoClose
    /\ UNCHANGED <<autoReconnect, sessions, infos, socks, reconnectAttempts, timers,
                   booting, guarded, zombie, scheduledSince, pendingSnaps>>
    /\ scenario' = "off"
    /\ UNCHANGED <<queueVars, webhookVars, readerVars, schedulerVars>>

\* getInfo(id): this.sessions.get(id)?.info
GetInfo(id) ==
    /\ held' = IF sessions[id].reg
               THEN Holds("getInfo", sessions[id].info, infos[sessions[id].info])
               ELSE NoHeld
    /\ lastClose' = NoClose
    /\ lastCall' = NoCall
    /\ UNCHANGED <<autoReconnect, sessions, infos, socks, reconnectAttempts, timers,
                   booting, guarded, zombie, scheduledSince, pendingSnaps, waiters,
                   scenario>>
    /\ UNCHANGED <<queueVars, webhookVars, schedulerVars>>

\* listSessions(): the info of every entry; the caller keeps the element of id
ListSessions(id) ==
    /\ sessions[id].reg
    /\ held' = Holds("listSessions", sessions[id].info, infos[sessions[id].info])
    /\ lastClose' = NoClose
    /\ lastCall' = NoCall
    /\ UNCHANGED <<autoReconnect, sessions, infos, socks, reconnectAttempts, timers,
                   booting, guarded, zombie, scheduledSince, pendingSnaps, waiters,
                   scenario>>
    /\ UNCHANGED <<queueVars, webhookVars, schedulerVars>>

\* the caller assigns a status to the object it was handed
MutateSnapshot(status) ==
    /\ held.ref # NoRef
    /\ status # held.taken.status
    /\ held' = [held EXCEPT !.taken.status = status]
    /\ infos' = [infos EXCEPT ![held.ref].status = status]
    /\ lastClose' = NoClose
    /\ lastCall' = NoCall
    /\ scenario' = "off"
    /\ UNCHANGED <<autoReconnect, sessions, socks, reconnectAttempts, timers,
                   booting, guarded, zombie, scheduledSince, pendingSnaps, waiters>>
    /\ UNCHANGED <<queueVars, webhookVars, schedulerVars>>

SessionNext ==
    \/ \E id \in Single : CreateSession(id)
    \/ \E id \in Single, c \in {"create", "reconnect"} : BootLoaded(id, c)
    \/ \E id \in Single, c \in {"create", "reconnect"} : BootFailed(id, c)
    \/ \E id \in Single, a \in AttemptNumbers : ReconnectTimerFires(id, a)
    \/ \E s \in 1..MaxSocks, u \in Updates : ConnectionUpdate(s, u)
    \/ \E id \in Single : DestroySession(id)

\* the connection.update events the transport of a session emits when two
\* sessions run: any for s1, and for s2 any but a close that is not a logout
UpdatesOf(id) == IF id \in Single THEN Updates ELSE {"qr", "open", "closeLoggedOut"}

\* a manager that runs two sessions, each created once, with listeners and a
\* message callback that may throw
PairNext ==
    \/ \E id \in Ids : ~HasSession(id) /\ Booting(id) = 0 /\ CreateSession(id)
    \/ \E id \in Ids, c \in {"create", "reconnect"} : BootLoaded(id, c)
    \/ \E id \in Ids, c \in {"create", "reconnect"} : BootFailed(id, c)
    \/ \E id \in Ids, a \in AttemptNumbers : ReconnectTimerFires(id, a)
    \/ \E s \in DOMAIN socks, u \in Updates :
           u \in UpdatesOf(socks[s].id) /\ ConnectionUpdate(s, u)
    \/ \E s \in DOMAIN socks, u \in Updates :
           u \in UpdatesOf(socks[s].id) /\ HandlerRaises(s, u)
    \/ \E s \in 1..MaxSocks, r \in BOOLEAN : MessagesUpsert(s, r)

\* a manager and a caller that reads its sessions
ReadNext ==
    \/ SessionNext
    \/ \E id \in Single : GetInfo(id)
    \/ \E id \in Single : ListSessions(id)
    \/ MutateSnapshot("disconnected")

\* a manager with autoReconnect: false and callers that wait for the connection
WaitNext ==
    \/ \E id \in Single : CreateSession(id)
    \/ \E id \in Single, c \in {"create", "reconnect"} : BootLoaded(id, c)
    \/ \E id \in Single, c \in {"create", "reconnect"} : BootFailed(id, c)
    \/ \E s \in 1..MaxSocks, u \in Updates : ConnectionUpdate(s, u)
    \/ \E id \in Single : DestroySession(id)
    \/ \E id \in Single : WaitForConnected(id)
    \/ \E w \in 1..MaxWaiters : WaitTimeout(w)

(***************************************************************************)
(* Claims about SessionManager                                             *)
(***************************************************************************)
\* the status getInfo(id) reports, "none" if the id is not registered
StatusIn(ss, inf, id) == IF ss[id].reg THEN inf[ss[id].info].status ELSE "none"

\* the status changes of the table of the specification
TransitionTable ==
    { <<"initializing", "qr_ready">>, <<"qr_ready", "connected">>,
      <<"connected", "disconnected">>, <<"disconnected", "initializing">> }

\* C1: after destroySession(id) is called with a reconnect timer of id pending,
\* and until createSession(id) is called again, no reconnect timer calls the
\* boot sequence for id and id is not registered.
C1_NoZombieReconnect ==
    \A id \in Ids : guarded[id] => (~zombie[id] /\ ~sessions[id].reg)

\* C8: every change of the status of a registered session is a step of the
\* transition table or a change to logged_out or disconnected.
C8_StatusTransitions ==
    [][\A id \in Ids :
         LET a == StatusIn(sessions, infos, id)
             b == StatusIn(sessions', infos', id)
         IN  (a # "none" /\ b # "none" /\ a # b)
                 => (<<a, b>> \in TransitionTable \/ b \in {"logged_out", "disconnected"})]_vars

\* C9: once the status of a session is logged_out, and while it stays
\* registered, its status does not change, no reconnect timer is scheduled
\* for it and no reconnect timer calls the boot sequence for it.
C9_LoggedOutTerminal ==
    [][\A id \in Ids :
         (StatusIn(sessions, infos, id) = "logged_out" /\ sessions'[id].reg)
             => /\ StatusIn(sessions', infos', id) = "logged_out"
                /\ \A a \in AttemptNumbers : timers'[id][a] <= timers[id][a]
                /\ booting'[id].reconnect <= booting[id].reconnect]_vars

Snapshot(id) == infos[sessions[id].info]

\* a non-logout close has found the attempts of id used up: the counter is
\* past maxReconnectAttempts, which only such a close makes it
Exhausted(id) ==
    autoReconnect /\ sessions[id].reg /\ Attempts(id) > MaxReconnectAttempts

\* C11: after a non-logout close that finds the reconnect attempts used up,
\* and while the session stays registered, its status stays disconnected and
\* no reconnect timer calls the boot sequence for it.
C11_ExhaustedStaysDisconnected ==
    [][\A id \in Ids :
         (Exhausted(id) /\ sessions'[id].reg)
             => /\ StatusIn(sessions', infos', id) = "disconnected"
                /\ booting'[id].reconnect <= booting[id].reconnect]_vars

\* C12: the snapshot getInfo(id) returns for a session that is disconnected with
\* its reconnect attempts used up differs from every snapshot it returned while
\* the session was disconnected with a re-boot scheduled.
C12_ExhaustionObservable ==
    \A id \in Ids :
        (Exhausted(id) /\ Snapshot(id).status = "disconnected" /\ Pending(id) = 0)
            => Snapshot(id) \notin pendingSnaps[id]

\* a createSession(id) call has been accepted and id is registered or about to be
Accepted(id) == sessions[id].reg \/ booting[id].create > 0

\* C13: createSession(id) is accepted only if no createSession(id) call has
\* been accepted before it and not yet failed, and id is not registered.
C13_DuplicateRejected ==
    [][\A id \in Ids :
         booting'[id].create > booting[id].create => ~Accepted(id)]_vars

\* C14: destroySession(id) for an id that is not registered throws
\* SessionNotFound and changes nothing; for a registered id it throws nothing
\* and leaves id unregistered, so that a second call is one for an id that is
\* not registered.
C14_DestroyAbsentRejected ==
    [][\A id \in Ids :
         (lastCall'.op = "destroySession" /\ lastCall'.id = id)
             => IF sessions[id].reg
                THEN lastCall'.error = "none" /\ ~sessions'[id].reg
                ELSE /\ lastCall'.error = "SessionNotFound"
                     /\ UNCHANGED <<sessions, infos, socks, reconnectAttempts, timers,
                                    booting>>]_vars

\* C14 witness: a second destroySession of an id destroyed before has thrown
C14_Witness ==
    /\ lastCall = Call("destroySession", "s1", "SessionNotFound")
    /\ \E s \in 1..Len(socks) : socks[s].id = "s1" /\ socks[s].wsClosed
    /\ ~sessions["s1"].reg

\* C15: the promise of a waitForConnected call is settled by exactly one call
\* of resolve or reject, that of the first thing to happen since the call: it is
\* resolved if a socket of the id reported open first (or the session was
\* connected at the call), rejected as logged out if a socket of the id
\* reported a logout first, rejected as timed out if the timer fired first,
\* and pending while none of these has happened.
C15_FirstOutcomeSettlesOnce ==
    \A w \in 1..Len(waiters) :
        /\ waiters[w].settled = (IF waiters[w].state = "pending" THEN 0 ELSE 1)
        /\ waiters[w].state = "pending" <=> waiters[w].first = "none"
        /\ waiters[w].state = "resolved" <=> waiters[w].first = "connected"
        /\ waiters[w].state = "loggedOut" <=> waiters[w].first = "logged_out"
        /\ waiters[w].state = "timeout" <=> waiters[w].first = "timeout"

\* C15 witness: a call that found the session not connected was rejected by a logout
C15_Witness ==
    \E w \in 1..Len(waiters) :
        waiters[w].state = "loggedOut" /\ ~waiters[w].immediate /\ waiters[w].settled = 1

\* C16: the timer and the two listeners of a waitForConnected call are held
\* together while its promise is pending and none of them is held once it is
\* settled, on every path.
C16_ReleasedTogether ==
    \A w \in 1..Len(waiters) :
        /\ waiters[w].timer = (waiters[w].state = "pending")
        /\ waiters[w].onConnected = (waiters[w].state = "pending")
        /\ waiters[w].onStatus = (waiters[w].state = "pending")

\* C16 witness: a call was resolved by a later session.connected event
C16_Witness ==
    \E w \in 1..Len(waiters) :
        waiters[w].state = "resolved" /\ ~waiters[w].immediate

\* C17: along createSession("s1"), the boot, a QR code "ABC", an open and a
\* non-logout close, with nothing else in between: after the QR code the
\* status is qr_ready with qr = "ABC"; after the open it is connected with the
\* reconnect counter at 0; after the close it is disconnected and, with
\* autoReconnect on, one timer of delay reconnectDelayMs is pending for "s1";
\* when that timer fires the boot sequence runs again for "s1".
C17_EndToEnd ==
    /\ scenario \in {"booted", "qr", "open", "closed"} => sessions["s1"].reg
    /\ scenario = "booted" => Snapshot("s1") = NewInfo
    /\ scenario = "qr" => Snapshot("s1") = [status |-> "qr_ready", qr |-> "ABC"]
    /\ scenario = "open" =>
           Snapshot("s1").status = "connected" /\ reconnectAttempts["s1"] = 0
    /\ scenario = "closed" =>
           /\ Snapshot("s1").status = "disconnected"
           /\ autoReconnect =>
                  /\ timers["s1"] = [a \in AttemptNumbers |-> IF a = 1 THEN 1 ELSE 0]
                  /\ lastClose.delay = <<ReconnectDelayMs, 1>>
    /\ scenario = "rebooted" =>
           Booting("s1") = 1 /\ booting["s1"].reconnect = 1 /\ Pending("s1") = 0

\* C17 witness: the scenario has been followed to the re-boot
C17_Witness == scenario = "rebooted" /\ Snapshot("s1").status = "disconnected"

\* C18: the delay of the k-th re-boot scheduled since the last open (or since
\* the session was created) is reconnectDelayMs * 1.5^(k-1), for k up to
\* maxReconnectAttempts; for k = 1..4 the delays are base, base * 3/2,
\* base * 9/4 and base * 27/8.
C18_BackoffDelay ==
    /\ lastClose.scheduled =>
           /\ lastClose.k \in 1..MaxReconnectAttempts
           /\ lastClose.delay = <<ReconnectDelayMs * Pow(BackoffNum, lastClose.k - 1),
                                  Pow(BackoffDen, lastClose.k - 1)>>
    /\ \A k \in 1..4 :
           Delay(k) = <<ReconnectDelayMs * <<1, 3, 9, 27>>[k], <<1, 2, 4, 8>>[k]>>

\* C18 witness: a second re-boot in a row has been scheduled
C18_Witness == lastClose.scheduled /\ lastClose.k = 2

\* C23: what getInfo or listSessions returned keeps the fields it had when it
\* was returned, whatever the manager does afterwards, and a caller that
\* writes to it leaves the manager's SessionInfo objects as they are.
C23_SnapshotsAreCopies ==
    /\ [](held.ref # NoRef => infos[held.ref] = held.taken)
    /\ [][held' # held => infos' = infos]_vars

\* what the manager holds for session id: its entry, its SessionInfo, its
\* socket, its reconnect counter and its pending timers
View(id) ==
    <<sessions[id],
      IF sessions[id].reg THEN infos[sessions[id].info] ELSE NewInfo,
      IF sessions[id].reg THEN socks[sessions[id].sock] ELSE NoSession,
      reconnectAttempts[id], timers[id]>>

C25_LoadFailureLeavesNothing ==
    /\ [][\A id \in Ids :
             (booting'[id].create < booting[id].create /\ socks' = socks)
                 => /\ lastCall' = Call("createSession", id, "AuthLoadFailure")
                    /\ UNCHANGED <<sessions, infos, reconnectAttempts, timers>>
                    /\ ~sessions[id].reg => ~HasSession(id)']_vars
    /\ [][\A id \in Ids :
             (/\ lastCall = Call("createSession", id, "AuthLoadFailure")
              /\ ~sessions[id].reg
              /\ lastCall'.op = "createSession" /\ lastCall'.id = id)
                 => lastCall'.error # "DuplicateSession"]_vars

\* C25 witness: createSession(s1) has just failed on its credentials and s1 has
\* no entry and no boot in progress
C25_Witness ==
    /\ lastCall = Call("createSession", "s1", "AuthLoadFailure")
    /\ ~sessions["s1"].reg /\ Booting("s1") = 0 /\ socks = <<>>

\* C26: once destroySession(id) has emitted 'session.destroyed' and until
\* createSession(id) is called again, no connection.update handler of a socket
\* that destroy closed runs for id: each run of the handler emits
\* 'session.status', and 'session.qr', 'session.connected' or
\* 'session.disconnected' with it.
C26_DestroyedIsTerminal ==
    [][\A s \in DOMAIN socks :
          (socks[s].wsClosed /\ ~Accepted(socks[s].id))
              => \A u \in Updates : ~ConnectionUpdate(s, u)]_vars

\* C27: a socket whose session is initializing or qr_ready can emit a close, and
\* the handler then takes the session straight to logged_out (logout code)
\* or to disconnected (any other code), with no connected status in between.
C27_FailureWithoutConnected ==
    /\ [](\A s \in DOMAIN socks :
             infos[socks[s].info].status \in {"initializing", "qr_ready"}
                 => ENABLED ConnectionUpdate(s, "closeLoggedOut"))
    /\ [][\A s \in DOMAIN socks :
             infos[socks[s].info].status \in {"initializing", "qr_ready"}
                 => /\ ConnectionUpdate(s, "closeLoggedOut")
                        => infos'[socks[s].info].status = "logged_out"
                    /\ ConnectionUpdate(s, "close")
                        => infos'[socks[s].info].status = "disconnected"]_vars

\* C27 witness: a registered session is logged_out or disconnected and no open
\* was handled for its id since it was created (its counter was never set)
C27_Witness ==
    \E id \in Ids :
        /\ sessions[id].reg /\ reconnectAttempts[id] = Absent
        /\ infos[sessions[id].info].status \in {"disconnected", "logged_out"}

\* C33: when the _boot of a reconnect timer has made and registered the new
\* socket of a session, so before any event of that socket is handled, the
\* status of the session is initializing.
C33_RebootIsInitializing ==
    [][\A id \in Ids :
          BootLoaded(id, "reconnect") =>
              infos'[sessions'[id].info].status = "initializing"]_vars

\* C34: every open handled on a socket of a session sets the attempt counter of
\* the session to 0; the first re-boot scheduled after it (the first since the
\* last open) is attempt 1 and waits reconnectDelayMs; and no step that finds
\* and leaves the session registered lowers the counter, unless it is an open.
C34_ConnectedResetsAttempts ==
    /\ [](lastClose.seen /\ lastClose.scheduled /\ lastClose.k = 1
              => lastClose.after = 1 /\ lastClose.delay = <<ReconnectDelayMs, 1>>)
    /\ [][\A s \in DOMAIN socks :
              ConnectionUpdate(s, "open") \/ HandlerRaises(s, "open")
                  => reconnectAttempts'[socks[s].id] = 0]_vars
    /\ [][\A id \in Ids :
              (sessions[id].reg /\ sessions'[id].reg
                   /\ reconnectAttempts'[id] < reconnectAttempts[id])
                  => \E s \in DOMAIN socks :
                         /\ socks[s].id = id
                         /\ ConnectionUpdate(s, "open") \/ HandlerRaises(s, "open")]_vars

\* C34 witness: a session created once was re-booted by a reconnect timer, so
\* its counter was at least 1; an open followed, and the close handled now
\* scheduled the first re-boot since that open, as attempt 1
C34_Witness ==
    /\ Len(socks) = 2 /\ socks[1].id = "s1" /\ socks[2].id = "s1"
    /\ lastClose.seen /\ lastClose.scheduled /\ lastClose.k = 1
    /\ lastClose.before = 0 /\ lastClose.after = 1
    /\ reconnectAttempts["s1"] = 1

\* a transport that is live for sure: _boot made it and attached its handlers,
\* destroySession has not closed it, and no connection.update of it or of
\* another transport of its session was handled yet, so it reported no close
SurelyLive(s) ==
    /\ ~socks[s].wsClosed
    /\ infos[socks[s].info].status = "initializing"

\* C38: in every reachable state each session id has at most one live
\* transport with its handlers attached.
C38_OneTransportPerSession ==
    \A id \in Ids :
        Cardinality({ s \in DOMAIN socks : socks[s].id = id /\ SurelyLive(s) }) <= 1

(***************************************************************************)
(* MessageScheduler                                                        *)
(***************************************************************************)
MaxTimers == 3

MessageIds == {"m1", "m2"}
NoTimer == 0
NoMessage == [set |-> FALSE, recurring |-> FALSE]

SchedulerInit ==
    /\ schedStore = [id \in MessageIds |-> NoMessage]
    /\ schedJobs = [id \in MessageIds |-> NoTimer]
    /\ schedTimers = <<>>
    /\ schedCancelled = [id \in MessageIds |-> FALSE]

\* setTimeout(() => this._fire(id), delay): a new pending timer
NewTimer(id) == [id |-> id, st |-> "pending", recurring |-> FALSE]

\* schedule(msg) with a time not in the past, or scheduleRecurring(...)
Schedule(id, recurring) ==
    /\ Len(schedTimers) < MaxTimers
    /\ schedStore' = [schedStore EXCEPT ![id] = [set |-> TRUE, recurring |-> recurring]]
    /\ schedTimers' = Append(schedTimers, NewTimer(id))
    /\ schedJobs' = [schedJobs EXCEPT ![id] = Len(schedTimers) + 1]
    /\ schedCancelled' = [schedCancelled EXCEPT ![id] = FALSE]
    /\ UNCHANGED <<queueVars, webhookVars, sessionVars>>

\* clearTimeout(timeout): a timer that has not fired will not fire
ClearTimer(tm, t) ==
    IF t # NoTimer /\ tm[t].st = "pending" THEN [tm EXCEPT ![t].st = "cleared"] ELSE tm

\* the maps after cancel(id) found a handle: both entries are deleted
CancelOne(id) ==
    [store |-> [schedStore EXCEPT ![id] = NoMessage],
     jobs |-> [schedJobs EXCEPT ![id] = NoTimer],
     timers |-> ClearTimer(schedTimers, schedJobs[id])]

\* cancel(id): true if this.jobs has a handle for id, else false and no change
Cancel(id) ==
    /\ schedJobs[id] # NoTimer
    /\ schedStore' = CancelOne(id).store
    /\ schedJobs' = CancelOne(id).jobs
    /\ schedTimers' = CancelOne(id).timers
    /\ schedCancelled' = [schedCancelled EXCEPT ![id] = TRUE]
    /\ UNCHANGED <<queueVars, webhookVars, sessionVars>>

\* cancelAll(): cancel(id) for every key of this.jobs
CancelAll ==
    /\ \E id \in MessageIds : schedJobs[id] # NoTimer
    /\ schedStore' = [id \in MessageIds |->
                         IF schedJobs[id] # NoTimer THEN NoMessage ELSE schedStore[id]]
    /\ schedJobs' = [id \in MessageIds |-> NoTimer]
    /\ schedTimers' = [t \in DOMAIN schedTimers |->
                          IF \E id \in MessageIds : schedJobs[id] = t
                          THEN ClearTimer(schedTimers, t)[t] ELSE schedTimers[t]]
    /\ schedCancelled' = [id \in MessageIds |->
                             schedCancelled[id] \/ schedJobs[id] # NoTimer]
    /\ UNCHANGED <<queueVars, webhookVars, sessionVars>>

\* timer t fires: _fire(id) up to the await of sendFn; it returns at once if the
\* store has no message for id
TimerFires(t) ==
    /\ t \in DOMAIN schedTimers
    /\ schedTimers[t].st = "pending"
    /\ LET msg == schedStore[schedTimers[t].id]
       IN  schedTimers' = [schedTimers EXCEPT ![t] =
                              IF msg.set
                              THEN [id |-> schedTimers[t].id, st |-> "sending",
                                    recurring |-> msg.recurring]
                              ELSE [schedTimers[t] EXCEPT !.st = "done"]]
    /\ UNCHANGED <<schedStore, schedJobs, schedCancelled>>
    /\ UNCHANGED <<queueVars, webhookVars, sessionVars>>

\* sendFn of the firing of timer t settles (resolved or rejected alike): a
\* recurring message is stored and timed again, a one-shot one is deleted
SendSettles(t) ==
    /\ t \in DOMAIN schedTimers
    /\ schedTimers[t].st = "sending"
    /\ LET id == schedTimers[t].id
           done == [schedTimers EXCEPT ![t].st = "done"]
       IN  IF schedTimers[t].recurring
           THEN /\ Len(schedTimers) < MaxTimers
                /\ schedStore' = [schedStore EXCEPT ![id] = [set |-> TRUE, recurring |-> TRUE]]
                /\ schedTimers' = Append(done, NewTimer(id))
                /\ schedJobs' = [schedJobs EXCEPT ![id] = Len(schedTimers) + 1]
           ELSE /\ schedStore' = [schedStore EXCEPT ![id] = NoMessage]
                /\ schedJobs' = [schedJobs EXCEPT ![id] = NoTimer]
                /\ schedTimers' = done
    /\ UNCHANGED schedCancelled
    /\ UNCHANGED <<queueVars, webhookVars, sessionVars>>

SchedulerNext ==
    \/ \E id \in MessageIds, r \in BOOLEAN : Schedule(id, r)
    \/ \E id \in MessageIds : Cancel(id)
    \/ CancelAll
    \/ \E t \in 1..MaxTimers : TimerFires(t)
    \/ \E t \in 1..MaxTimers : SendSettles(t)

\* C31: once cancel(id) has returned true, and until id is scheduled again, the
\* store has no message for id (list() does not show it) and the scheduler
\* holds no timer for id, so that nothing is left to fire and send it.
C31_CancelledNeverFires ==
    \A id \in MessageIds :
        schedCancelled[id] => (~schedStore[id].set /\ schedJobs[id] = NoTimer)

Init == QueueInit /\ WebhookInit /\ SessionInit /\ SchedulerInit

\* the queue and the bridge are checked beside a manager with the default config
InitDefault == Init /\ autoReconnect

SpecQueue == InitDefault /\ [][QueueNext]_vars

\* timers fire when they are due and every operation settles
SpecQueueLive == InitDefault /\ [][QueueLiveNext]_vars /\ WF_vars(QueueProgress)

SpecWebhook == InitDefault /\ [][WebhookNext]_vars

SpecFanout == InitDefault /\ [][FanoutNext]_vars

SpecBackoff == InitDefault /\ [][BackoffNext]_vars

SpecSession == Init /\ [][SessionNext]_vars

SpecScheduler == InitDefault /\ [][SchedulerNext]_vars

SpecPair == InitDefault /\ [][PairNext]_vars

SpecRead == Init /\ [][ReadNext]_vars

\* a manager constructed with autoReconnect: false
InitNoReconnect == Init /\ ~autoReconnect

SpecWait == InitNoReconnect /\ [][WaitNext]_vars

====
